---- MODULE Spec2Model ----
(***************************************************************************)
(* Model of dremio-export/scripts/dremio_export.py: the asynchronous query *)
(* workflow submit_query -> wait_for_job -> fetch_all_results -> write_csv *)
(* as run by run_export and search_catalog.                                *)
(*                                                                         *)
(* The Dremio server is the environment: every request draws its answer    *)
(* (transport error, non-success status, or a JSON body) and the time it   *)
(* took from small sets.  Every request and its answer is appended to      *)
(* reqLog, the history the properties are stated over.                     *)
(***************************************************************************)
EXTENDS Integers, Sequences, FiniteSets, TLC

\* ---------------------------------------------------------------- bounds
\* largest timeout argument tried (seconds)
MaxTimeout == 3
\* largest poll_interval argument tried (seconds)
MaxPollInterval == 2
\* a request takes 0..MaxReqTime seconds
MaxReqTime == 1
\* largest rowCount the server reports
MaxRowCount == 5
\* largest number of rows the job really holds
MaxJobRows == 4
\* largest page_size argument tried
MaxPageSize == 2
\* The whole-command specification composes the three phases and explores
\* them with smaller inputs.
\* largest --timeout tried by a whole command
CmdMaxTimeout == 1
\* largest rowCount reported to a whole command
CmdMaxRowCount == 2
\* largest real result size in a whole command
CmdMaxJobRows == 2
\* largest number of view names given to batch-export
MaxViews == 3
\* largest number of segments of a catalog path
MaxSegs == 2
\* largest number of characters of all segments of a catalog path together
MaxPathChars == 3
\* largest number of entries of the catalog
MaxNodes == 3
\* largest number of rows given to write_csv
MaxCsvRows == 2

\* ------------------------------------------------------- program constants
DefaultPollInterval == 1

\* ---------------------------------------------------------------- state
VARIABLES
    cmd,            \* what is running: "export", "search", or one function alone
    pc,             \* position of the single thread of control
    now,            \* time.time()
    start,          \* wait_for_job: start
    timeout,        \* wait_for_job: timeout
    poll_interval,  \* wait_for_job: poll_interval
    state,          \* wait_for_job: state
    job_data,       \* the snapshot wait_for_job returned
    row_count,      \* fetch_all_results: row_count
    page_size,      \* fetch_all_results: page_size
    offset,         \* fetch_all_results: offset
    columns,        \* fetch_all_results: columns
    all_rows,       \* fetch_all_results: all_rows
    jobRows,        \* server: number of rows the job's result really holds
    reqLog,         \* history: every request issued and its answer
    err,            \* the fatal error printed before sys.exit(1)
    out,            \* what the command produced (CSV file or item list)
    \* sqlserver_view_export.py
    view_names,     \* run_batch_export / run_export: the views to export
    view_idx,       \* run_batch_export: position of the for loop
    success_count,  \* run_batch_export: success_count
    failed_count,   \* run_batch_export: failed_count
    attempts,       \* history: the export_view_to_csv calls and their results
    conn,           \* the pyodbc connection: "none", "open" or "closed"
    connects,       \* history: number of pyodbc.connect calls
    exitCode,       \* exit status of the process, -1 while it runs
    files,          \* the output directory: a set of [name, view, complete]
    \* dremio_export.py, catalog paths
    notation,       \* how the user wrote the path: "dot", "slash", "quoted"
    path_segs,      \* the segment list the user means
    path,           \* _parse_path: path, a string as a sequence of characters
    parsed,         \* _parse_path: the returned segment list
    \* dremio_export.py, list_catalog_items
    catalog,        \* the server's catalog: a set of [path, type] entries
    recursive,      \* list_catalog_items: recursive
    call_path,      \* list_catalog_items: path of the call about to start
    frames,         \* the active calls, outermost first: children, idx, items
    items,          \* the list returned by the outermost call
    catReqs,        \* history: segment list of every catalog request
    catFault,       \* history: a request for an existing path has failed
    \* dremio_export.py, write_csv
    csv_columns,    \* write_csv: columns
    csv_rows,       \* write_csv: rows, each a mapping from keys to values
    csv_file        \* the records written to output_path, header first

dremioData == <<now, start, timeout, poll_interval, state, job_data,
                row_count, page_size, offset, columns, all_rows, jobRows,
                reqLog, err, out>>

sqlVars == <<view_names, view_idx, success_count, failed_count, attempts,
             conn, connects, exitCode, files>>

\* The variables of the tools other than the Dremio query workflow.
pathVars == <<notation, path_segs, path, parsed>>

catVars == <<catalog, recursive, call_path, frames, items, catReqs, catFault>>

csvVars == <<csv_columns, csv_rows, csv_file>>

toolVars == <<sqlVars, pathVars, catVars, csvVars>>

vars == <<cmd, pc, dremioData, toolVars>>

\* No SQL Server command is running.
SqlIdle ==
    /\ view_names = <<>> /\ view_idx = 0
    /\ success_count = 0 /\ failed_count = 0
    /\ attempts = <<>>
    /\ conn = "none" /\ connects = 0
    /\ exitCode = -1
    /\ files = {}

\* No path is being parsed.
PathIdle ==
    /\ notation = "" /\ path_segs = <<>> /\ path = <<>> /\ parsed = <<>>

\* No catalog listing is running.
CatIdle ==
    /\ catalog = {} /\ recursive = FALSE /\ call_path = <<>>
    /\ frames = <<>> /\ items = <<>> /\ catReqs = <<>> /\ catFault = FALSE

\* No file is being written by write_csv.
CsvIdle ==
    /\ csv_columns = <<>> /\ csv_rows = <<>> /\ csv_file = <<>>

ToolsIdle == SqlIdle /\ PathIdle /\ CatIdle /\ CsvIdle

\* No Dremio command is running.
DremioIdle ==
    /\ now = 0 /\ start = 0 /\ timeout = 0 /\ poll_interval = 1
    /\ state = ""
    /\ job_data = [hasState |-> FALSE, jobState |-> "", hasMsg |-> FALSE,
                   errorMessage |-> "", hasRowCount |-> FALSE, rowCount |-> 0]
    /\ row_count = 0 /\ page_size = 1 /\ offset = 0
    /\ columns = <<>> /\ all_rows = <<>>
    /\ jobRows = 0
    /\ reqLog = <<>>
    /\ err = [kind |-> "none", detail |-> ""]
    /\ out = [written |-> FALSE, columns |-> <<>>, rows |-> <<>>]

waitVars == <<start, timeout, poll_interval, state>>
fetchVars == <<row_count, page_size, offset, columns, all_rows>>

\* ------------------------------------------------------------ the server
\* How a request can end: requests.RequestException, resp.ok false, resp.ok.
Transport == "transport"
Http == "http"
Ok == "ok"
Results == {Transport, Http, Ok}

\* Values the jobState field can carry: the documented states and a string
\* the client does not know.
NonTerminalNames == {"RUNNING", "BOGUS"}

NoBody == [hasState |-> FALSE, jobState |-> "", hasMsg |-> FALSE,
           errorMessage |-> "", hasRowCount |-> FALSE, rowCount |-> 0]

\* JSON bodies of GET /api/v3/job/{id}: each field may be absent.  rowCount
\* is carried by COMPLETED snapshots, errorMessage by FAILED ones.
StatusBodies ==
    {NoBody}
    \cup {[NoBody EXCEPT !.hasState = TRUE, !.jobState = s] :
            s \in {"CANCELED"} \cup NonTerminalNames}
    \cup {[NoBody EXCEPT !.hasState = TRUE, !.jobState = "FAILED"]}
    \cup {[NoBody EXCEPT !.hasState = TRUE, !.jobState = "FAILED",
                         !.hasMsg = TRUE, !.errorMessage = "boom"]}
    \cup {[NoBody EXCEPT !.hasState = TRUE, !.jobState = "COMPLETED"]}
    \cup {[NoBody EXCEPT !.hasState = TRUE, !.jobState = "COMPLETED",
                         !.hasRowCount = TRUE, !.rowCount = n] :
            n \in 0..(IF cmd \in {"export", "search"} THEN CmdMaxRowCount
                       ELSE MaxRowCount)}

NoErr == [kind |-> "none", detail |-> ""]
NoOut == [written |-> FALSE, columns |-> <<>>, rows |-> <<>>]

\* One reqLog entry.  at = seconds since start when the request was issued.
LogEntry(kind, at, off, lim, result, body, rows, hasSchema, schema) ==
    [kind |-> kind, at |-> at, offset |-> off, limit |-> lim,
     result |-> result, body |-> body, rows |-> rows,
     hasSchema |-> hasSchema, schema |-> schema]

StatusEntry(at, result, body) ==
    LogEntry("status", at, 0, 0, result, body, <<>>, FALSE, <<>>)

SubmitEntry(result) ==
    LogEntry("submit", 0, 0, 0, result, NoBody, <<>>, FALSE, <<>>)

\* kind "page": a request of the pagination loop; kind "schema": the
\* offset=0&limit=1 request of the zero-row case.
ResultsEntry(kind, off, lim, result, rows, hasSchema, schema) ==
    LogEntry(kind, 0, off, lim, result, NoBody, rows, hasSchema, schema)

\* Column lists a results response can carry in its schema field (a result
\* set has at least one column).
Schemas == {<<"a">>, <<"a", "b">>}

Min(a, b) == IF a < b THEN a ELSE b
Max(a, b) == IF a > b THEN a ELSE b

\* The job's result is rows 1..jobRows; a results response for
\* offset/limit carries the first k of the rows that exist from offset on,
\* for some k up to limit (k below what exists is a short page).
PageRows(off, k) == [i \in 1..k |-> off + i]
Available(off, lim) == Min(lim, Max(jobRows - off, 0))

\* Mutant: a non-success HTTP status is not checked.
RequestFailed_TransportOnly(result) == result = Transport

\* except requests.RequestException / if not resp.ok
RequestFailed(result) == result # Ok

\* ---------------------------------------------------------- wait_for_job
terminal_states_NoCompleted == {"FAILED", "CANCELED"}

terminal_states == {"COMPLETED", "FAILED", "CANCELED"}

JobState_DefaultCompleted(data) ==
    IF data.hasState THEN data.jobState ELSE "COMPLETED"

\* state = data.get("jobState", "UNKNOWN")
JobState(data) == IF data.hasState THEN data.jobState ELSE "UNKNOWN"

\* msg = data.get("errorMessage", "Unknown error")
FailMsg(data) == IF data.hasMsg THEN data.errorMessage ELSE "Unknown error"

\* Mutant: the elapsed time is compared before the terminal set.
StatusOutcome_TimeoutFirst(st, elapsed, to) ==
    IF elapsed >= to THEN "timeout"
    ELSE IF st \in terminal_states
    THEN IF st = "COMPLETED" THEN "return"
         ELSE IF st = "FAILED" THEN "failed"
         ELSE "canceled"
    ELSE "sleep"

\* Mutant: on timeout the last snapshot is returned instead of failing.
StatusOutcome_ReturnOnTimeout(st, elapsed, to) ==
    IF st \in terminal_states
    THEN IF st = "COMPLETED" THEN "return"
         ELSE IF st = "FAILED" THEN "failed"
         ELSE "canceled"
    ELSE IF elapsed >= to THEN "return"
    ELSE "sleep"

\* Mutant: the client waits for twice the timeout.
StatusOutcome_DoubleTimeout(st, elapsed, to) ==
    IF st \in terminal_states
    THEN IF st = "COMPLETED" THEN "return"
         ELSE IF st = "FAILED" THEN "failed"
         ELSE "canceled"
    ELSE IF elapsed >= 2 * to THEN "timeout"
    ELSE "sleep"

\* Mutant: a canceled job is treated like a completed one.
StatusOutcome_CanceledReturns(st, elapsed, to) ==
    IF st \in terminal_states
    THEN IF st = "FAILED" THEN "failed" ELSE "return"
    ELSE IF elapsed >= to THEN "timeout"
    ELSE "sleep"

\* Mutant: the timeout is reached only when the elapsed time exceeds it.
StatusOutcome_TimeoutStrict(st, elapsed, to) ==
    IF st \in terminal_states
    THEN IF st = "COMPLETED" THEN "return"
         ELSE IF st = "FAILED" THEN "failed"
         ELSE "canceled"
    ELSE IF elapsed > to THEN "timeout"
    ELSE "sleep"

\* What one loop iteration does with an OK status response, in the order of
\* the code: the terminal set first, the elapsed time second.
StatusOutcome(st, elapsed, to) ==
    IF st \in terminal_states
    THEN IF st = "COMPLETED" THEN "return"
         ELSE IF st = "FAILED" THEN "failed"
         ELSE "canceled"
    ELSE IF elapsed >= to THEN "timeout"
    ELSE "sleep"

\* Where control goes when a function returns to its caller.
AfterWait == IF cmd = "wait_for_job" THEN "returned" ELSE "fetch"

\* One iteration of the while loop up to (not including) time.sleep.
Poll ==
    /\ pc = "poll"
    /\ \E d \in 0..MaxReqTime, result \in Results, body \in StatusBodies :
        /\ result # Ok => body = NoBody
        /\ now' = now + d
        /\ reqLog' = Append(reqLog, StatusEntry(now - start, result, body))
        /\ IF RequestFailed(result)
           THEN /\ pc' = "fatal"
                /\ err' = [kind |-> "status_error", detail |-> result]
                /\ UNCHANGED <<state, job_data>>
           ELSE LET st == JobState(body)
                    o == StatusOutcome(st, now' - start, timeout)
                IN /\ state' = st
                   /\ job_data' = IF o = "return" THEN body ELSE job_data
                   /\ pc' = CASE o = "return" -> AfterWait
                              [] o = "sleep" -> "sleep"
                              [] OTHER -> "fatal"
                   /\ err' = CASE o = "failed" ->
                                    [kind |-> "job_failed", detail |-> FailMsg(body)]
                               [] o = "canceled" ->
                                    [kind |-> "canceled", detail |-> ""]
                               [] o = "timeout" ->
                                    [kind |-> "timeout", detail |-> st]
                               [] OTHER -> err
    /\ UNCHANGED <<cmd, toolVars, start, timeout, poll_interval, fetchVars, jobRows, out>>

\* time.sleep(poll_interval)
Sleep ==
    /\ pc = "sleep"
    /\ now' = now + poll_interval
    /\ pc' = "poll"
    /\ UNCHANGED <<cmd, toolVars, waitVars, job_data, fetchVars, jobRows, reqLog, err, out>>

\* ----------------------------------------------------- fetch_all_results
\* Mutant: the loop bound lets one more offset through.
LoopContinues_OneMore(off, rc) == off <= Max(rc - 1, 0) + 1

\* Mutant: the loop bound admits offset = row_count.
LoopContinues_Inclusive(off, rc) == off <= Max(rc, 0)

\* Mutant: strict comparison in the loop bound.
LoopContinues_Strict(off, rc) == off < Max(rc - 1, 0)

\* while offset <= max(row_count - 1, 0)
LoopContinues(off, rc) == off <= Max(rc - 1, 0)

\* Mutant: only an empty page stops the loop.
ShortPage_EmptyOnly(rows, ps) == Len(rows) = 0

\* if len(rows) < page_size: break
ShortPage(rows, ps) == Len(rows) < ps

\* Mutant: every page that carries a schema overwrites columns.
NextColumns_Overwrite(cols, hasSchema, schema) ==
    IF hasSchema THEN schema ELSE cols

\* if not columns and "schema" in data: columns = [names of data["schema"]]
NextColumns(cols, hasSchema, schema) ==
    IF cols = <<>> /\ hasSchema THEN schema ELSE cols

\* if not columns and row_count == 0
NeedSchemaFetch(cols, rc) == cols = <<>> /\ rc = 0

\* rowCount as the caller hands it to fetch_all_results:
\* job_data.get("rowCount", 0), and run_export passes 0 unless it is > 0.
RowCountArg(data) ==
    LET rc == IF data.hasRowCount THEN data.rowCount ELSE 0
    IN IF cmd = "export" THEN (IF rc > 0 THEN rc ELSE 0) ELSE rc

AfterFetch ==
    CASE cmd = "fetch_all_results" -> "returned"
      [] cmd = "export" -> "write"
      [] OTHER -> "items"

\* Where control goes when the pagination loop is left.
AfterLoop(cols, rc) == IF NeedSchemaFetch(cols, rc) THEN "schema" ELSE AfterFetch

\* Entry of fetch_all_results: the three initialisations and the first
\* evaluation of the loop condition.
FetchEnter ==
    /\ pc = "fetch"
    /\ row_count' = (IF cmd = "fetch_all_results" THEN row_count
                     ELSE RowCountArg(job_data))
    /\ columns' = <<>>
    /\ all_rows' = <<>>
    /\ offset' = 0
    /\ pc' = IF LoopContinues(0, row_count') THEN "page"
             ELSE AfterLoop(<<>>, row_count')
    /\ UNCHANGED <<cmd, toolVars, now, waitVars, job_data, page_size, jobRows,
                   reqLog, err, out>>

\* One iteration of the pagination loop and the loop condition after it.
FetchPage ==
    /\ pc = "page"
    /\ \E result \in Results, k \in 0..Available(offset, page_size),
          hasSchema \in BOOLEAN, schema \in Schemas \cup {<<>>} :
        /\ hasSchema <=> schema # <<>>
        /\ result # Ok => (k = 0 /\ ~hasSchema)
        /\ LET rows == PageRows(offset, k) IN
           /\ reqLog' = Append(reqLog,
                  ResultsEntry("page", offset, page_size, result, rows,
                               hasSchema, schema))
           /\ IF RequestFailed(result)
              THEN /\ pc' = "fatal"
                   /\ err' = [kind |-> "fetch_error", detail |-> result]
                   /\ UNCHANGED <<columns, all_rows, offset>>
              ELSE /\ columns' = NextColumns(columns, hasSchema, schema)
                   /\ all_rows' = all_rows \o rows
                   /\ offset' = IF ShortPage(rows, page_size) THEN offset
                                ELSE offset + page_size
                   /\ pc' = IF ~ShortPage(rows, page_size)
                                /\ LoopContinues(offset', row_count)
                             THEN "page"
                             ELSE AfterLoop(columns', row_count)
                   /\ UNCHANGED err
    /\ UNCHANGED <<cmd, toolVars, now, waitVars, job_data, row_count, page_size,
                   jobRows, out>>

\* The zero-row case: one request with offset=0&limit=1 whose failure is
\* swallowed and whose rows are not used.
FetchSchema ==
    /\ pc = "schema"
    /\ \E result \in Results, k \in 0..Available(0, 1),
          hasSchema \in BOOLEAN, schema \in Schemas \cup {<<>>} :
        /\ hasSchema <=> schema # <<>>
        /\ result # Ok => (k = 0 /\ ~hasSchema)
        /\ reqLog' = Append(reqLog,
               ResultsEntry("schema", 0, 1, result, PageRows(0, k),
                            hasSchema, schema))
        /\ columns' = IF result = Ok /\ hasSchema THEN schema ELSE columns
    /\ pc' = AfterFetch
    /\ UNCHANGED <<cmd, toolVars, now, waitVars, job_data, row_count, page_size,
                   offset, all_rows, jobRows, err, out>>

\* fetch_all_results called on its own with any row_count and page_size,
\* against a job that holds any number of rows.
InitFetch ==
    /\ cmd = "fetch_all_results"
    /\ pc = "fetch"
    /\ now = 0 /\ start = 0 /\ timeout = 0 /\ poll_interval = 1
    /\ state = ""
    /\ job_data = NoBody
    /\ row_count \in 0..MaxRowCount
    /\ page_size \in 1..MaxPageSize
    /\ offset = 0
    /\ columns = <<>> /\ all_rows = <<>>
    /\ jobRows \in 0..MaxJobRows
    /\ reqLog = <<>>
    /\ err = NoErr
    /\ out = NoOut
    /\ ToolsIdle

NextFetch == FetchEnter \/ FetchPage \/ FetchSchema

SpecFetch == InitFetch /\ [][NextFetch]_vars

\* ------------------------------------------- run_export, search_catalog
\* submit_query, and on success the entry of wait_for_job (start is read).
Submit ==
    /\ pc = "submit"
    /\ \E d \in 0..MaxReqTime, result \in Results :
        /\ now' = now + d
        /\ reqLog' = Append(reqLog, SubmitEntry(result))
        /\ IF RequestFailed(result)
           THEN /\ pc' = "fatal"
                /\ err' = [kind |-> "submit_error", detail |-> result]
                /\ UNCHANGED start
           ELSE /\ pc' = "poll"
                /\ start' = now'
                /\ UNCHANGED err
    /\ UNCHANGED <<cmd, toolVars, timeout, poll_interval, state, job_data, fetchVars,
                   jobRows, out>>

\* write_csv(columns, rows, output_path)
WriteCsv ==
    /\ pc = "write"
    /\ out' = [written |-> TRUE, columns |-> columns, rows |-> all_rows]
    /\ pc' = "done"
    /\ UNCHANGED <<cmd, toolVars, now, waitVars, job_data, fetchVars, jobRows,
                   reqLog, err>>

\* search_catalog: one item per fetched row, no file.
SearchItems ==
    /\ pc = "items"
    /\ out' = [written |-> FALSE, columns |-> <<>>, rows |-> all_rows]
    /\ pc' = "done"
    /\ UNCHANGED <<cmd, toolVars, now, waitVars, job_data, fetchVars, jobRows,
                   reqLog, err>>

\* One export or search command.  poll_interval is wait_for_job's default;
\* page_size stands for fetch_all_results' default of 500 rows.
Init ==
    /\ cmd \in {"export", "search"}
    /\ pc = "submit"
    /\ now = 0 /\ start = 0
    /\ timeout \in 0..CmdMaxTimeout
    /\ poll_interval = DefaultPollInterval
    /\ state = ""
    /\ job_data = NoBody
    /\ row_count = 0
    /\ page_size \in 1..MaxPageSize
    /\ offset = 0
    /\ columns = <<>> /\ all_rows = <<>>
    /\ jobRows \in 0..CmdMaxJobRows
    /\ reqLog = <<>>
    /\ err = NoErr
    /\ out = NoOut
    /\ ToolsIdle

Next ==
    \/ Submit
    \/ Poll
    \/ Sleep
    \/ FetchEnter
    \/ FetchPage
    \/ FetchSchema
    \/ WriteCsv
    \/ SearchItems

Spec == Init /\ [][Next]_vars

\* wait_for_job called on its own with any timeout and poll_interval.
InitWait ==
    /\ cmd = "wait_for_job"
    /\ pc = "poll"
    /\ now \in 0..MaxReqTime
    /\ start = now
    /\ timeout \in 0..MaxTimeout
    /\ poll_interval \in 1..MaxPollInterval
    /\ state = ""
    /\ job_data = NoBody
    /\ row_count = 0 /\ page_size = 1 /\ offset = 0
    /\ columns = <<>> /\ all_rows = <<>>
    /\ jobRows = 0
    /\ reqLog = <<>>
    /\ err = NoErr
    /\ out = NoOut
    /\ ToolsIdle

NextWait == Poll \/ Sleep

SpecWait == InitWait /\ [][NextWait]_vars

\* ------------------------------------------------- history of the polling
Last(s) == s[Len(s)]

IsStatus(e) == e.kind = "status"
StatusLog == SelectSeq(reqLog, IsStatus)

\* The jobState a status response carried, "" when the field was absent or
\* the request failed.
Carried(e) == IF e.result = Ok /\ e.body.hasState THEN e.body.jobState ELSE ""

AllStatusOk == \A i \in 1..Len(StatusLog) : StatusLog[i].result = Ok

WaitEnded == pc \in {"returned", "fatal"}

\* C1: a status response that carries COMPLETED makes wait_for_job return
\* that snapshot, whatever the elapsed time is at that moment: the terminal
\* set is consulted before the timeout.  No poll follows it and no error is
\* recorded.
C1_CompletedBeforeTimeout ==
    \A i \in 1..Len(StatusLog) :
        Carried(StatusLog[i]) = "COMPLETED" =>
            /\ i = Len(StatusLog)
            /\ pc = "returned"
            /\ job_data = StatusLog[i].body
            /\ err = NoErr

\* C1 witness: COMPLETED arrived when the elapsed time had already passed
\* a positive timeout, and the snapshot was returned.
C1_Witness ==
    /\ pc = "returned"
    /\ timeout > 0
    /\ now - start > timeout
    /\ Carried(Last(StatusLog)) = "COMPLETED"
    /\ job_data.hasRowCount

\* C2: when the states returned by the successive polls are n non-terminal
\* states followed by COMPLETED, for any n, wait_for_job has returned the
\* COMPLETED snapshot and has not ended in a fatal error.
C2_CompletedSequenceReturns ==
    (/\ Len(StatusLog) > 0
     /\ AllStatusOk
     /\ Carried(Last(StatusLog)) = "COMPLETED"
     /\ \A i \in 1..(Len(StatusLog) - 1) :
            Carried(StatusLog[i]) \notin {"COMPLETED", "FAILED", "CANCELED"})
    => (pc # "fatal" /\ pc = "returned" /\ err.kind = "none"
        /\ job_data = Last(StatusLog).body)

\* C2 witness: three non-terminal answers (a known state, an unknown string
\* and a body without jobState) precede COMPLETED.
C2_Witness ==
    /\ pc = "returned"
    /\ Len(StatusLog) = 4
    /\ Carried(StatusLog[1]) = "RUNNING"
    /\ Carried(StatusLog[2]) = "BOGUS"
    /\ ~StatusLog[3].body.hasState
    /\ Carried(StatusLog[4]) = "COMPLETED"

\* A poll is within the timeout window when it was issued no later than
\* timeout seconds after start.
InWindow(e) == e.at <= timeout

C4_StateMapping ==
    (Len(StatusLog) > 0 /\ Last(StatusLog).result = Ok) =>
        LET b == Last(StatusLog).body IN
        CASE b.hasState /\ b.jobState = "COMPLETED" ->
                pc = "returned" /\ job_data = b /\ err = NoErr
          [] b.hasState /\ b.jobState = "FAILED" ->
                /\ pc = "fatal"
                /\ err.kind = "job_failed"
                /\ err.detail = (IF b.hasMsg THEN b.errorMessage
                                  ELSE "Unknown error")
          [] b.hasState /\ b.jobState = "CANCELED" ->
                pc = "fatal" /\ err = [kind |-> "canceled", detail |-> ""]
          [] OTHER ->
                /\ pc \in {"sleep", "poll", "fatal"}
                /\ pc = "fatal" => err.kind = "timeout"
                /\ err.kind \notin {"job_failed", "canceled"}
                /\ job_data = NoBody

\* C4 witness: a body without jobState was treated as pending, and the next
\* poll's FAILED without errorMessage ended with "Unknown error".
C4_Witness ==
    /\ Len(StatusLog) = 2
    /\ StatusLog[1].result = Ok /\ ~StatusLog[1].body.hasState
    /\ Carried(StatusLog[2]) = "FAILED" /\ ~StatusLog[2].body.hasMsg
    /\ pc = "fatal"
    /\ err = [kind |-> "job_failed", detail |-> "Unknown error"]

\* ---------------------------------------------- history of the fetching
IsPage(e) == e.kind = "page"
IsSchemaFetch(e) == e.kind = "schema"
IsResults(e) == e.kind \in {"page", "schema"}
PageLog == SelectSeq(reqLog, IsPage)
SchemaLog == SelectSeq(reqLog, IsSchemaFetch)
ResultsLog == SelectSeq(reqLog, IsResults)

RECURSIVE ConcatRows(_)
ConcatRows(log) ==
    IF log = <<>> THEN <<>>
    ELSE ConcatRows(SubSeq(log, 1, Len(log) - 1)) \o Last(log).rows

FetchEnded == pc \in {"returned", "fatal"}

\* C5 as stated: with row_count = 0 the pagination loop issues no request,
\* the only results request is one offset=0&limit=1 fetch, and its failure
\* leaves columns empty without aborting.
C5_ZeroRowsNoPagination ==
    (cmd = "fetch_all_results" /\ row_count = 0) =>
        /\ PageLog = <<>>
        /\ Len(ResultsLog) <= 1
        /\ \A i \in 1..Len(ResultsLog) :
              ResultsLog[i].offset = 0 /\ ResultsLog[i].limit = 1
        /\ pc # "fatal"
        /\ (pc = "returned" /\ Len(SchemaLog) = 1 /\ SchemaLog[1].result # Ok)
              => columns = <<>>

\* C6 as stated: with row_count = 0 fetch_all_results never ends in a fatal
\* error, and it returns a non-empty column list exactly when the
\* offset=0&limit=1 fetch succeeded and carried a schema.
C6_ZeroRowsNeverFatal ==
    (cmd = "fetch_all_results" /\ row_count = 0) =>
        /\ pc # "fatal"
        /\ pc = "returned" =>
              (columns # <<>> <=>
                  \E i \in 1..Len(SchemaLog) :
                      SchemaLog[i].result = Ok /\ SchemaLog[i].hasSchema)

\* The server is well-behaved: the job holds exactly row_count rows and
\* every page carried all the rows that exist in its range.
WellBehaved ==
    /\ jobRows = row_count
    /\ \A i \in 1..Len(PageLog) :
          /\ PageLog[i].result = Ok
          /\ Len(PageLog[i].rows) =
                Min(PageLog[i].limit, Max(jobRows - PageLog[i].offset, 0))

\* C7: against a well-behaved server the i-th page request has offset
\* (i-1)*page_size and limit page_size, all_rows is the concatenation of the
\* pages in that order, and when the loop is over all_rows is exactly rows
\* 1..row_count of the job, in order.
C7_WellBehavedPagination ==
    (cmd = "fetch_all_results" /\ WellBehaved) =>
        /\ \A i \in 1..Len(PageLog) :
              /\ PageLog[i].offset = (i - 1) * page_size
              /\ PageLog[i].limit = page_size
        /\ all_rows = ConcatRows(PageLog)
        /\ pc \in {"schema", "returned"} =>
              all_rows = [i \in 1..row_count |-> i]

\* C7 witness: row_count is a multiple of page_size; two full pages gave
\* the job's 4 rows and the loop bound ended the loop.
C7_Witness ==
    /\ pc = "returned"
    /\ WellBehaved
    /\ row_count = 4 /\ page_size = 2
    /\ Len(PageLog) = 2
    /\ all_rows = <<1, 2, 3, 4>>

\* C8: a page with fewer rows than page_size is the last page request of
\* the loop, whatever row_count says; its rows and the rows of the pages
\* before it make up all_rows.
C8_ShortPageStops ==
    \A i \in 1..Len(PageLog) :
        (PageLog[i].result = Ok /\ Len(PageLog[i].rows) < PageLog[i].limit) =>
            /\ i = Len(PageLog)
            /\ pc # "page"
            /\ all_rows = ConcatRows(PageLog)

\* C8 witness: after a full page, a page of one row at offset 2 ended the
\* loop although offset + page_size <= row_count - 1.
C8_Witness ==
    /\ pc = "returned"
    /\ page_size = 2
    /\ Len(PageLog) = 2
    /\ Len(PageLog[1].rows) = 2
    /\ PageLog[2].offset = 2 /\ PageLog[2].rows = <<3>>
    /\ PageLog[2].offset + page_size <= row_count - 1
    /\ all_rows = <<1, 2, 3>>

\* Index in ResultsLog of the first response that carried a schema, 0 when
\* none did.
FirstSchemaIdx ==
    LET has == {i \in 1..Len(ResultsLog) :
                  ResultsLog[i].result = Ok /\ ResultsLog[i].hasSchema}
    IN IF has = {} THEN 0
       ELSE CHOOSE i \in has : \A j \in has : i <= j

\* C9: columns is the schema of the first fetched page that carried one
\* (empty while none did); later pages, with another schema or with none,
\* do not change it.
C9_FirstSchemaKept ==
    (cmd = "fetch_all_results" /\ pc # "fetch") =>
        columns = (IF FirstSchemaIdx = 0 THEN <<>>
                   ELSE ResultsLog[FirstSchemaIdx].schema)

\* C9 witness: the first page had no schema, the second one <<a, b>>, the
\* third one <<a>>; columns is <<a, b>>.
C9_Witness ==
    /\ Len(PageLog) >= 3
    /\ ~PageLog[1].hasSchema /\ PageLog[1].result = Ok
    /\ PageLog[2].schema = <<"a", "b">>
    /\ PageLog[3].schema = <<"a">>
    /\ columns = <<"a", "b">>

\* C10: a submit, status or page request that ends in a transport error or
\* a non-success status is the last request of the command: the command is
\* at its fatal exit and has written no file.
C10_NoRetry ==
    \A i \in 1..Len(reqLog) :
        (reqLog[i].kind \in {"submit", "status", "page"}
         /\ reqLog[i].result # Ok) =>
            /\ i = Len(reqLog)
            /\ pc = "fatal"
            /\ err.kind \in {"submit_error", "status_error", "fetch_error"}
            /\ out = NoOut

\* C10 witness: an export whose second page request got a non-success
\* status after a pending poll and one good page.
C10_Witness ==
    /\ cmd = "export"
    /\ pc = "fatal"
    /\ Len(StatusLog) = 2
    /\ Len(PageLog) = 2
    /\ PageLog[1].result = Ok
    /\ PageLog[2].result = Http
    /\ all_rows # <<>>
    /\ ~out.written

\* ------------------------------------------------ strings of characters
\* A string is a sequence of one-character strings.
Whitespace == {" "}

Contains(s, c) == \E i \in 1..Len(s) : s[i] = c

\* s.split(sep)
RECURSIVE SplitAcc(_, _, _, _)
SplitAcc(s, sep, i, cur) ==
    IF i > Len(s) THEN <<cur>>
    ELSE IF s[i] = sep THEN <<cur>> \o SplitAcc(s, sep, i + 1, <<>>)
    ELSE SplitAcc(s, sep, i + 1, Append(cur, s[i]))

Split(s, sep) == SplitAcc(s, sep, 1, <<>>)

\* s.strip(chars); s.strip() is Strip(s, Whitespace)
RECURSIVE LStrip(_, _)
LStrip(s, cs) ==
    IF s # <<>> /\ Head(s) \in cs THEN LStrip(Tail(s), cs) ELSE s

RECURSIVE RStrip(_, _)
RStrip(s, cs) ==
    IF s # <<>> /\ s[Len(s)] \in cs
    THEN RStrip(SubSeq(s, 1, Len(s) - 1), cs) ELSE s

Strip(s, cs) == RStrip(LStrip(s, cs), cs)

\* sep.join(segs)
RECURSIVE Join(_, _)
Join(segs, sep) ==
    IF segs = <<>> THEN <<>>
    ELSE IF Len(segs) = 1 THEN segs[1]
    ELSE segs[1] \o <<sep>> \o Join(Tail(segs), sep)

\* ------------------------------------------- sqlserver_view_export.py
\* View names given on the command line.
\* dbo.V, sales.V and "dbo.V 1".
ViewNames ==
    { <<"d", "b", "o", ".", "V">>,
      <<"s", "a", "l", "e", "s", ".", "V">>,
      <<"d", "b", "o", ".", "V", " ", "1">> }

\* How export_view_to_csv can go: the query and the file are fine, the query
\* raises pyodbc.Error, or another Exception is raised before the file is
\* opened ("write_error") or after open() has truncated it ("partial_write").
ExportOutcomes == {"ok", "query_error", "write_error", "partial_write"}

\* export_view_to_csv returns True after the file is written, False from
\* both except clauses.
ExportResult(outcome) == outcome = "ok"

\* c.isalnum() for the characters of the view names.
Alnum == {"a", "b", "d", "e", "l", "o", "s", "V", "1"}

SafeChar(c) == IF c \in Alnum \cup {"_", "-"} THEN c ELSE "_"

\* view_name_to_filename(view_name)
view_name_to_filename(view_name) ==
    LET parts == Split(view_name, ".")
        name == Strip(Strip(Strip(parts[Len(parts)], Whitespace), {"["}), {"]"})
    IN [i \in 1..Len(name) |-> SafeChar(name[i])] \o <<".", "c", "s", "v">>

\* The output directory after export_view_to_csv(conn, view_name,
\* output_path): open(output_path, 'w') replaces whatever file had the name.
FilesAfter(fs, view_name, outcome) ==
    LET fname == view_name_to_filename(view_name)
        others == {f \in fs : f.name # fname}
    IN CASE outcome = "ok" ->
              others \cup {[name |-> fname, view |-> view_name, complete |-> TRUE]}
         [] outcome = "partial_write" ->
              others \cup {[name |-> fname, view |-> view_name, complete |-> FALSE]}
         [] OTHER -> fs

\* Mutant: the loop is left at the first failed view.
AfterView_AbortOnFailure(i, n, ok) ==
    IF i > n \/ ~ok THEN "batch_end" ELSE "loop"

\* for view_name in view_names: the loop goes on to the next view whatever
\* the result was, and ends after the last one.
AfterView(i, n, ok) == IF i > n THEN "batch_end" ELSE "loop"

\* if failed_count > 0: sys.exit(1)
BatchExit(failed) == IF failed > 0 THEN 1 ELSE 0

SqlCmds == {"sql_list", "sql_search", "sql_export", "sql_batch"}

\* create_connection: pyodbc.connect, or sys.exit(1) when it fails.
SqlConnect ==
    /\ pc = "connect"
    /\ connects' = connects + 1
    /\ \E ok \in BOOLEAN :
        IF ok
        THEN /\ conn' = "open"
             /\ pc' = CASE cmd \in {"sql_list", "sql_search"} -> "query"
                        [] cmd = "sql_export" -> "export"
                        [] OTHER -> "loop"
             /\ view_idx' = 1
             /\ UNCHANGED exitCode
        ELSE /\ pc' = "exit"
             /\ exitCode' = 1
             /\ UNCHANGED <<conn, view_idx>>
    /\ UNCHANGED <<cmd, dremioData, pathVars, catVars, csvVars, view_names, success_count, failed_count,
                   attempts, files>>

\* run_list / run_search after the connection: list_views or search_views,
\* which exits on pyodbc.Error; otherwise conn.close() and the table.
SqlQuery ==
    /\ pc = "query"
    /\ \E ok \in BOOLEAN :
        IF ok
        THEN /\ conn' = "closed"
             /\ exitCode' = 0
        ELSE /\ exitCode' = 1
             /\ UNCHANGED conn
    /\ pc' = "exit"
    /\ UNCHANGED <<cmd, dremioData, pathVars, catVars, csvVars, view_names, view_idx, success_count,
                   failed_count, attempts, connects, files>>

\* run_export after the connection: export_view_to_csv, conn.close(), and
\* sys.exit(1) when the export returned False.
SqlExport ==
    /\ pc = "export"
    /\ \E o \in ExportOutcomes :
        /\ attempts' = Append(attempts,
              [view |-> view_names[1], ok |-> ExportResult(o)])
        /\ files' = FilesAfter(files, view_names[1], o)
        /\ exitCode' = IF ExportResult(o) THEN 0 ELSE 1
    /\ conn' = "closed"
    /\ pc' = "exit"
    /\ UNCHANGED <<cmd, dremioData, pathVars, catVars, csvVars, view_names, view_idx, success_count,
                   failed_count, connects>>

\* One iteration of the for loop of run_batch_export.
SqlBatchStep ==
    /\ pc = "loop"
    /\ \E o \in ExportOutcomes :
        LET ok == ExportResult(o) IN
        /\ attempts' = Append(attempts, [view |-> view_names[view_idx], ok |-> ok])
        /\ files' = FilesAfter(files, view_names[view_idx], o)
        /\ success_count' = IF ok THEN success_count + 1 ELSE success_count
        /\ failed_count' = IF ok THEN failed_count ELSE failed_count + 1
        /\ view_idx' = view_idx + 1
        /\ pc' = AfterView(view_idx', Len(view_names), ok)
    /\ UNCHANGED <<cmd, dremioData, pathVars, catVars, csvVars, view_names, conn, connects, exitCode>>

\* run_batch_export after the loop: conn.close(), the summary, the exit.
SqlBatchEnd ==
    /\ pc = "batch_end"
    /\ conn' = "closed"
    /\ exitCode' = BatchExit(failed_count)
    /\ pc' = "exit"
    /\ UNCHANGED <<cmd, dremioData, pathVars, catVars, csvVars, view_names, view_idx, success_count,
                   failed_count, attempts, connects, files>>

\* One SQL Server command, after load_config: batch-export takes one or
\* more view names (nargs="+"), export takes one.
InitSql ==
    /\ cmd \in SqlCmds
    /\ pc = "connect"
    /\ DremioIdle
    /\ view_names \in
          CASE cmd = "sql_batch" ->
                  UNION {[1..n -> ViewNames] : n \in 1..MaxViews}
            [] cmd = "sql_export" -> [1..1 -> ViewNames]
            [] OTHER -> {<<>>}
    /\ view_idx = 0
    /\ success_count = 0 /\ failed_count = 0
    /\ attempts = <<>>
    /\ conn = "none" /\ connects = 0
    /\ exitCode = -1
    /\ files = {}
    /\ PathIdle
    /\ CatIdle
    /\ CsvIdle

NextSql ==
    \/ SqlConnect
    \/ SqlQuery
    \/ SqlExport
    \/ SqlBatchStep
    \/ SqlBatchEnd

SpecSql == InitSql /\ [][NextSql]_vars

C12_ConnectionClosedAtExit ==
    (cmd \in SqlCmds /\ pc = "exit") =>
        /\ connects = 1
        /\ conn # "open"

\* ---------------------------------------- dremio_export.py, _parse_path
\* Strings are sequences of one-character strings over this alphabet:
\* two letters, the three delimiters, and a blank.
Letters == {"a", "B"}
Chars == Letters \cup {".", "/", "\"", " "}

\* seg.strip().strip('"').strip("'")
SlashSegment(seg) == Strip(Strip(Strip(seg, Whitespace), {"\""}), {"'"})

NotBlank(seg) == Strip(seg, Whitespace) # <<>>

\* The "/" branch of _parse_path.
ParseSlash(p) ==
    LET kept == SelectSeq(Split(p, "/"), NotBlank)
    IN [i \in 1..Len(kept) |-> SlashSegment(kept[i])]

\* Mutant: a dot splits inside quotes too.
SplitsHere_IgnoreQuotes(ch, in_quotes) == ch = "."

\* elif ch == "." and not in_quotes
SplitsHere(ch, in_quotes) == ch = "." /\ ~in_quotes

\* The '"' branch of _parse_path: the loop over the characters from
\* position i on, and the final append.
RECURSIVE QuoteScan(_, _, _, _, _)
QuoteScan(p, i, segments, current, in_quotes) ==
    IF i > Len(p)
    THEN IF current # <<>> THEN Append(segments, current) ELSE segments
    ELSE IF p[i] = "\""
    THEN QuoteScan(p, i + 1, segments, current, ~in_quotes)
    ELSE IF SplitsHere(p[i], in_quotes)
    THEN IF current # <<>>
         THEN QuoteScan(p, i + 1, Append(segments, current), <<>>, in_quotes)
         ELSE QuoteScan(p, i + 1, segments, current, in_quotes)
    ELSE QuoteScan(p, i + 1, segments, Append(current, p[i]), in_quotes)

\* _parse_path(path)
parse_path(p) ==
    IF Contains(p, "/") THEN ParseSlash(p)
    ELSE IF Contains(p, "\"") THEN QuoteScan(p, 1, <<>>, <<>>, FALSE)
    ELSE Split(p, ".")

\* The three surface notations of a segment list.
Quoted(seg) == <<"\"">> \o seg \o <<"\"">>

Render(how, segs) ==
    CASE how = "dot" -> Join(segs, ".")
      [] how = "slash" -> Join(segs, "/")
      [] OTHER -> Join([i \in 1..Len(segs) |-> Quoted(segs[i])], ".")

\* The string s cut into segments after each position of cuts.
RECURSIVE CutAcc(_, _, _, _)
CutAcc(s, cuts, i, cur) ==
    IF i > Len(s) THEN <<cur>>
    ELSE IF i \in cuts
    THEN <<Append(cur, s[i])>> \o CutAcc(s, cuts, i + 1, <<>>)
    ELSE CutAcc(s, cuts, i + 1, Append(cur, s[i]))

Cuts(n) == {c \in SUBSET (1..(n - 1)) : Cardinality(c) <= MaxSegs - 1}

\* Lists of 1..MaxSegs non-empty segments, MaxPathChars characters in all.
SegmentLists ==
    UNION {UNION {{CutAcc(s, c, 1, <<>>) : c \in Cuts(n)}
                  : s \in [1..n -> Chars]}
           : n \in 1..MaxPathChars}

\* _parse_path(path)
ParsePath ==
    /\ pc = "parse"
    /\ parsed' = parse_path(path)
    /\ pc' = "parsed"
    /\ UNCHANGED <<cmd, dremioData, sqlVars, catVars, csvVars, notation,
                   path_segs, path>>

\* _parse_path called on a segment list written in one of the notations.
InitPath ==
    /\ cmd = "parse_path"
    /\ pc = "parse"
    /\ DremioIdle
    /\ SqlIdle
    /\ CatIdle
    /\ CsvIdle
    /\ notation \in {"dot", "slash", "quoted"}
    /\ path_segs \in SegmentLists
    /\ path = Render(notation, path_segs)
    /\ parsed = <<>>

NextPath == ParsePath

SpecPath == InitPath /\ [][NextPath]_vars

\* A segment made of the given characters only.
MadeOf(seg, cs) == \A i \in 1..Len(seg) : seg[i] \in cs
AllMadeOf(segs, cs) == \A i \in 1..Len(segs) : MadeOf(segs[i], cs)

\* C13: segments of plain letters written with dots or with slashes parse to
\* the same list, the segments themselves; double-quoted segments with
\* letters, dots and blanks joined by dots parse to the segments verbatim,
\* quotes removed, so a dot splits only outside quotes.
C13_NotationsAgree ==
    pc = "parsed" =>
        /\ (notation \in {"dot", "slash"} /\ AllMadeOf(path_segs, Letters))
              => parsed = path_segs
        /\ (notation = "quoted"
            /\ AllMadeOf(path_segs, Letters \cup {".", " "}))
              => parsed = path_segs

\* C13 witness: the input '"a."." "', two quoted segments, one with a dot
\* and one with a blank, came back as the two segments.
C13_Witness ==
    /\ pc = "parsed"
    /\ notation = "quoted"
    /\ path_segs = << <<"a", ".">>, <<" ">> >>
    /\ parsed = path_segs

\* ------------------------------------ dremio_export.py, list_catalog_items
\* Names of catalog entries; one of them holds a dot.  The server lists the
\* children of a container in this order.
NameOrder == << <<"a">>, <<"a", ".", "b">>, <<"b">> >>
Names == {NameOrder[i] : i \in 1..Len(NameOrder)}

\* child.type: datasets, containers, and a type the client ignores.
ItemTypes == {"DATASET", "CONTAINER", "FILE"}

\* Paths that can take a new entry: under the root or under a container.
FreeSlots(cat) ==
    {Append(p, nm) : p \in {<<>>} \cup {e.path : e \in {x \in cat : x.type = "CONTAINER"}},
                     nm \in Names}
      \ {e.path : e \in cat}

Extensions(cat) ==
    {cat \cup {[path |-> q, type |-> t]} : q \in FreeSlots(cat), t \in ItemTypes}

\* Every catalog of at most n entries.
RECURSIVE CatalogsUpTo(_)
CatalogsUpTo(n) ==
    IF n = 0 THEN {{}}
    ELSE LET smaller == CatalogsUpTo(n - 1)
         IN smaller \cup UNION {Extensions(cat) : cat \in smaller}

IsRoot(segs) == segs = <<>>
InCatalog(cat, segs) == IsRoot(segs) \/ \E e \in cat : e.path = segs

\* The "children" (for the root: "data") of the server's answer.
ChildrenOf(cat, segs) ==
    LET Present(nm) == \E e \in cat : e.path = Append(segs, nm)
        present == SelectSeq(NameOrder, Present)
    IN [i \in 1..Len(present) |->
            CHOOSE e \in cat : e.path = Append(segs, present[i])]

\* items.append({"name": name, "path": path_str, "type": kind})
DatasetItem(child) ==
    [name |-> child.path[Len(child.path)], path |-> Join(child.path, "."),
     type |-> "VIEW"]

\* items.append({... "type": container_type or "CONTAINER"})
ContainerItem(child) ==
    [name |-> child.path[Len(child.path)], path |-> Join(child.path, "."),
     type |-> "CONTAINER"]

\* path_segments of a call: _parse_path(path) if path else the root.
CallSegments(p) == IF p = <<>> THEN <<>> ELSE parse_path(p)

\* The request of one call of list_catalog_items and its fatal paths.
ListCall ==
    /\ cmd = "list" /\ pc = "list_call"
    /\ LET segs == CallSegments(call_path)
       IN /\ catReqs' = Append(catReqs, segs)
          /\ \E result \in Results :
               IF RequestFailed(result) \/ ~InCatalog(catalog, segs)
               THEN /\ pc' = "exit"
                    /\ catFault' = (catFault \/ InCatalog(catalog, segs))
                    /\ UNCHANGED frames
               ELSE /\ pc' = "list_loop"
                    /\ frames' = Append(frames,
                           [children |-> ChildrenOf(catalog, segs),
                            idx |-> 1, items |-> <<>>])
                    /\ UNCHANGED catFault
    /\ UNCHANGED <<cmd, dremioData, sqlVars, pathVars, csvVars, catalog, recursive,
                   call_path, items>>

\* One iteration of "for child in children".
ListChild ==
    /\ cmd = "list" /\ pc = "list_loop"
    /\ LET d == Len(frames)
           top == frames[d]
       IN /\ top.idx <= Len(top.children)
          /\ LET child == top.children[top.idx]
                 step(its) == [frames EXCEPT ![d] =
                                  [top EXCEPT !.idx = top.idx + 1, !.items = its]]
             IN CASE child.type = "DATASET" ->
                       /\ frames' = step(Append(top.items, DatasetItem(child)))
                       /\ UNCHANGED <<pc, call_path>>
                  [] child.type = "CONTAINER" /\ recursive ->
                       /\ frames' = step(top.items)
                       /\ call_path' = Join(child.path, ".")
                       /\ pc' = "list_call"
                  [] child.type = "CONTAINER" /\ ~recursive ->
                       /\ frames' = step(Append(top.items, ContainerItem(child)))
                       /\ UNCHANGED <<pc, call_path>>
                  [] OTHER ->
                       /\ frames' = step(top.items)
                       /\ UNCHANGED <<pc, call_path>>
    /\ UNCHANGED <<cmd, dremioData, sqlVars, pathVars, csvVars, catalog, recursive,
                   items, catReqs, catFault>>

\* return items; the caller does items.extend(sub_items).
ListReturn ==
    /\ cmd = "list" /\ pc = "list_loop"
    /\ LET d == Len(frames)
           top == frames[d]
       IN /\ top.idx > Len(top.children)
          /\ IF d = 1
             THEN /\ items' = top.items
                  /\ frames' = <<>>
                  /\ pc' = "listed"
             ELSE /\ frames' = [SubSeq(frames, 1, d - 1) EXCEPT ![d - 1].items =
                                   frames[d - 1].items \o top.items]
                  /\ UNCHANGED <<pc, items>>
    /\ UNCHANGED <<cmd, dremioData, sqlVars, pathVars, csvVars, catalog, recursive,
                   call_path, catReqs, catFault>>

\* list_catalog_items(base_url, token, None, recursive) on some catalog.
InitList ==
    /\ cmd = "list"
    /\ pc = "list_call"
    /\ DremioIdle
    /\ SqlIdle
    /\ PathIdle
    /\ CsvIdle
    /\ catalog \in CatalogsUpTo(MaxNodes)
    /\ recursive \in BOOLEAN
    /\ call_path = <<>>
    /\ frames = <<>> /\ items = <<>> /\ catReqs = <<>> /\ catFault = FALSE

NextList == ListCall \/ ListChild \/ ListReturn

SpecList == InitList /\ [][NextList]_vars

\* The datasets below the children kids[i..], depth first.
RECURSIVE DepthFirst(_, _, _)
DepthFirst(cat, kids, i) ==
    IF i > Len(kids) THEN <<>>
    ELSE (CASE kids[i].type = "DATASET" -> <<DatasetItem(kids[i])>>
            [] kids[i].type = "CONTAINER" ->
                 DepthFirst(cat, ChildrenOf(cat, kids[i].path), 1)
            [] OTHER -> <<>>)
         \o DepthFirst(cat, kids, i + 1)

\* One entry per dataset or container child, nothing below.
RECURSIVE Shallow(_, _)
Shallow(kids, i) ==
    IF i > Len(kids) THEN <<>>
    ELSE (CASE kids[i].type = "DATASET" -> <<DatasetItem(kids[i])>>
            [] kids[i].type = "CONTAINER" -> <<ContainerItem(kids[i])>>
            [] OTHER -> <<>>)
         \o Shallow(kids, i + 1)

\* C14: when no request for an existing path fails, a recursive listing
\* returns the datasets of all reachable descendants in depth-first order,
\* and a non-recursive listing returns one entry per child and issues the
\* one request for the listed node only.
C14_ListingComplete ==
    (cmd = "list" /\ pc \in {"listed", "exit"} /\ ~catFault) =>
        /\ pc = "listed"
        /\ recursive =>
             items = DepthFirst(catalog, ChildrenOf(catalog, <<>>), 1)
        /\ ~recursive =>
             /\ items = Shallow(ChildrenOf(catalog, <<>>), 1)
             /\ catReqs = << <<>> >>

\* ------------------------------------------- dremio_export.py, write_csv
\* Keys of a row; "c" is never a schema column.
RowKeys == {"a", "b", "c"}

\* Python's None, and a string value with a comma in it.
None == "None"
CellValues == {None, "x,y"}

\* A row maps some of the keys to values.
CsvRowSet == UNION {[K -> CellValues] : K \in SUBSET RowKeys}

\* fieldnames: in the order of the schema, which need not be alphabetic.
CsvSchemas == Schemas \cup {<<>>, <<"b", "a">>}

\* csv.writer renders None as the empty field and a string as itself.
FieldText(v) == IF v = None THEN "" ELSE v

\* Mutant: a column missing from the row gets no field.
RowRecord_SkipMissing(cols, row) ==
    LET Has(c) == c \in DOMAIN row
        kept == SelectSeq(cols, Has)
    IN [j \in 1..Len(kept) |-> FieldText(row[kept[j]])]

\* DictWriter.writerow with extrasaction="ignore" and restval "".
RowRecord(cols, row) ==
    [j \in 1..Len(cols) |->
        IF cols[j] \in DOMAIN row THEN FieldText(row[cols[j]]) ELSE ""]

\* write_csv(columns, rows, output_path)
WriteCsvFile ==
    /\ cmd = "write_csv" /\ pc = "write"
    /\ csv_file' = <<csv_columns>>
                      \o [i \in 1..Len(csv_rows) |->
                             RowRecord(csv_columns, csv_rows[i])]
    /\ pc' = "written"
    /\ UNCHANGED <<cmd, dremioData, sqlVars, pathVars, catVars, csv_columns,
                   csv_rows>>

InitCsv ==
    /\ cmd = "write_csv"
    /\ pc = "write"
    /\ DremioIdle
    /\ SqlIdle
    /\ PathIdle
    /\ CatIdle
    /\ csv_columns \in CsvSchemas
    /\ csv_rows \in UNION {[1..n -> CsvRowSet] : n \in 0..MaxCsvRows}
    /\ csv_file = <<>>

NextCsv == WriteCsvFile

SpecCsv == InitCsv /\ [][NextCsv]_vars

\* C15: the file holds the header record, the columns in schema order, and
\* then one record per row in input order; a row's record has one field per
\* schema column in schema order, empty where the row lacks the column, and
\* nothing for the keys of the row that are not schema columns.
C15_CsvShape ==
    (cmd = "write_csv" /\ pc = "written") =>
        /\ Len(csv_file) = 1 + Len(csv_rows)
        /\ csv_file[1] = csv_columns
        /\ \A i \in 1..Len(csv_rows) :
             /\ Len(csv_file[i + 1]) = Len(csv_columns)
             /\ \A j \in 1..Len(csv_columns) :
                  LET col == csv_columns[j]
                  IN IF col \in DOMAIN csv_rows[i]
                     THEN csv_file[i + 1][j] = FieldText(csv_rows[i][col])
                     ELSE csv_file[i + 1][j] = ""

\* C15 witness: schema (b, a); the first row has the extra key c and lacks
\* b, the second has a None; both were written as two fields.
C15_Witness ==
    /\ cmd = "write_csv" /\ pc = "written"
    /\ csv_columns = <<"b", "a">>
    /\ Len(csv_rows) = 2
    /\ DOMAIN csv_rows[1] = {"a", "c"}
    /\ csv_rows[1]["a"] = "x,y"
    /\ csv_file[2] = <<"", "x,y">>
    /\ DOMAIN csv_rows[2] = {"a", "b"}
    /\ csv_rows[2]["b"] = None
    /\ csv_file[3] = <<"", FieldText(csv_rows[2]["a"])>>

CeilDiv(a, b) == (a + b - 1) \div b

\* The number of iterations the loop bound allows.
LoopBound(rc, ps) == Max(1, CeilDiv(Max(rc, 0), ps))

AllPagesFull ==
    \A i \in 1..Len(PageLog) :
        PageLog[i].result = Ok /\ Len(PageLog[i].rows) = PageLog[i].limit

\* C17: when every page received was full, the short-page rule has not
\* fired and the loop is over because of the bound alone: all_rows holds
\* page_size rows per iteration the bound allows, a number fixed by
\* row_count, however many rows the job holds.
C17_BoundStopsFullPages ==
    (cmd = "fetch_all_results" /\ pc \in {"schema", "returned"} /\ AllPagesFull) =>
        /\ Len(PageLog) = LoopBound(row_count, page_size)
        /\ Len(all_rows) = page_size * LoopBound(row_count, page_size)
        /\ all_rows = [i \in 1..Len(all_rows) |-> i]

\* C17 witness: the job holds 4 rows, row_count says 2; one full page of 2
\* rows was received and fetch_all_results returned with 2 rows.
C17_Witness ==
    /\ cmd = "fetch_all_results" /\ pc = "returned"
    /\ jobRows = 4 /\ row_count = 2 /\ page_size = 2
    /\ AllPagesFull
    /\ Len(PageLog) = 1
    /\ all_rows = <<1, 2>>
    /\ Len(all_rows) < jobRows

\* --------------------------------- run_export, search_catalog: the order
\* C18: in one export or search command at most one submission is issued
\* and it is the first request; a results request follows a status poll
\* that returned COMPLETED; no status poll follows one that returned a
\* terminal state; and when the CSV file is written the command is over,
\* the last request having been a results request.
C18_ProtocolOrder ==
    (cmd \in {"export", "search"}) =>
        /\ \A i \in 1..Len(reqLog) : reqLog[i].kind = "submit" <=> i = 1
        /\ pc \notin {"submit", "fatal"} => Len(reqLog) >= 1
        /\ \A i \in 1..Len(reqLog) :
             IsResults(reqLog[i]) =>
                \E j \in 1..(i - 1) :
                    IsStatus(reqLog[j]) /\ Carried(reqLog[j]) = "COMPLETED"
        /\ \A i \in 1..Len(reqLog) :
             (IsStatus(reqLog[i]) /\ Carried(reqLog[i]) \in terminal_states) =>
                \A j \in (i + 1)..Len(reqLog) : ~IsStatus(reqLog[j])
        /\ out.written =>
             /\ cmd = "export" /\ pc = "done"
             /\ IsResults(Last(reqLog))

\* C18 witness: an export that submitted, polled twice, fetched one page
\* without a schema and then the schema, and wrote the file.
C18_Witness ==
    /\ cmd = "export" /\ pc = "done" /\ out.written
    /\ Len(reqLog) = 5
    /\ reqLog[1].kind = "submit"
    /\ Carried(reqLog[2]) = "RUNNING"
    /\ Carried(reqLog[3]) = "COMPLETED"
    /\ IsPage(reqLog[4])
    /\ IsSchemaFetch(reqLog[5])

\* ------------------------------------------- wait_for_job, termination
\* The loop of wait_for_job runs without interruption: a poll or a sleep
\* that can be taken is taken.
SpecWaitFair == SpecWait /\ WF_vars(NextWait)

\* C19: with poll_interval > 0 wait_for_job ends, and it issues at most
\* ceil(timeout / poll_interval) + 1 status requests; with timeout = 0 it
\* ends after exactly one.
C19_WaitTerminates ==
    /\ [](/\ poll_interval > 0
          /\ Len(StatusLog) <= CeilDiv(timeout, poll_interval) + 1
          /\ (WaitEnded /\ timeout = 0) => Len(StatusLog) = 1)
    /\ <>WaitEnded

\* C19 witness: timeout 3, poll_interval 2: the third status request, the
\* most the bound allows, ended in the timeout error.
C19_Witness ==
    /\ cmd = "wait_for_job" /\ pc = "fatal" /\ err.kind = "timeout"
    /\ timeout = 3 /\ poll_interval = 2
    /\ Len(StatusLog) = 3
    /\ Len(StatusLog) = CeilDiv(timeout, poll_interval) + 1

\* -------------------------------------- fetch_all_results, termination
\* fetch_all_results runs without interruption.
SpecFetchFair == SpecFetch /\ WF_vars(NextFetch)

\* C20: fetch_all_results ends for every row_count and page_size; the i-th
\* request of the loop has offset (i-1)*page_size, so the offsets are
\* strictly increasing multiples of page_size; the loop issues at most
\* max(1, ceil(row_count / page_size)) requests; and besides them there is
\* at most one request, with offset 0 and limit 1, after the loop.
C20_FetchTerminates ==
    /\ [](/\ page_size > 0
          /\ \A i \in 1..Len(PageLog) :
                /\ PageLog[i].offset = (i - 1) * page_size
                /\ PageLog[i].limit = page_size
          /\ Len(PageLog) <= LoopBound(row_count, page_size)
          /\ Len(SchemaLog) <= 1
          /\ \A i \in 1..Len(ResultsLog) :
                IsSchemaFetch(ResultsLog[i]) =>
                    /\ i = Len(ResultsLog)
                    /\ ResultsLog[i].offset = 0 /\ ResultsLog[i].limit = 1
          /\ Len(ResultsLog) = Len(PageLog) + Len(SchemaLog))
    /\ <>FetchEnded

\* C20 witness: row_count 5, page_size 2: the loop issued its three
\* requests at offsets 0, 2 and 4 and fetch_all_results returned.
C20_Witness ==
    /\ cmd = "fetch_all_results" /\ pc = "returned"
    /\ row_count = 5 /\ page_size = 2
    /\ Len(PageLog) = 3
    /\ PageLog[2].offset = 2 /\ PageLog[3].offset = 4
    /\ Len(PageLog) = LoopBound(row_count, page_size)

\* ------------------------------- list_catalog_items, the recursive lookup
\* C21: a segment list joined with dots, as list_catalog_items does for a
\* container child, parses back to that segment list, whatever characters
\* the segments hold: dots, slashes, double quotes and blanks included.
C21_JoinParseRoundTrip ==
    (cmd = "parse_path" /\ pc = "parsed" /\ notation = "dot") =>
        parsed = path_segs

\* ------------------------------------- run_batch_export, the output files
DistinctViews ==
    \A i, j \in 1..Len(view_names) : i # j => view_names[i] # view_names[j]

\* The files that a successful export wrote and that are still whole.
Produced == {f \in files : f.complete}

\* C22: a batch-export of distinct view names writes distinct files: the
\* views have pairwise different file names, the number of files produced
\* equals success_count, and every successfully exported view still has its
\* own file at the end.
C22_DistinctFiles ==
    (cmd = "sql_batch" /\ pc = "exit" /\ conn # "none" /\ DistinctViews) =>
        /\ \A i, j \in 1..Len(view_names) :
              i # j => view_name_to_filename(view_names[i])
                          # view_name_to_filename(view_names[j])
        /\ Cardinality(Produced) = success_count
        /\ \A i \in 1..Len(attempts) :
              attempts[i].ok =>
                 \E f \in Produced :
                    /\ f.view = attempts[i].view
                    /\ f.name = view_name_to_filename(attempts[i].view)
====
